---------------------------- MODULE Spec2Model ----------------------------
(*
  Model of the chunked transcriber of utils/ivritAI_utils.py:
  transcribe_audio, _split_with_overlap, _extract_text_safe and
  _stitch_with_overlap_text, and of summarize_text of utils/llm_utils.py.

  Each function has its own specification over its own variables: Spec is one
  call of transcribe_audio, SpecRerun a call and a second call on the same
  file, SpecConcurrent two calls at once on one disk, SpecStitch,
  SpecNormalize and SpecSummarize one call of the function they are named
  after.  A specification pins the variables of the others.

  Time is counted in tenths of a second (1.2 s = 12, 240 s = 2400), so that
  the shipped overlap of 1.2 s is an integer.  Text is a sequence of
  one-character strings.
*)
EXTENDS Integers, Sequences, FiniteSets, TLC

VARIABLES
    cfg,          \* [chunk_sec, overlap_sec]: CHUNK_SEC / OVERLAP_SEC of the run
    file,         \* the audio source: [exists, probe_ok, duration]
    progress_cb,  \* TRUE when a progress callback is passed
    tmp_dir,      \* <stem>_chunks on disk: [exists, files]
    pc,           \* position inside transcribe_audio
    duration_sec, \* local duration_sec of transcribe_audio
    starts,       \* local starts of _split_with_overlap
    chunks,       \* local paths / chunks: indices of the extracted chunk files
    texts,        \* local texts
    i,            \* loop counter of the chunk loop (1-based, as enumerate(chunks, 1))
    raw,          \* local raw: the last ASR result
    full_text,    \* text returned
    err,          \* exception propagating out of transcribe_audio
    stub,         \* what the ASR stub has answered so far, by chunk number (0: whole file)
    run,          \* 1 in the first call on the file, 2 in a second call on it
    first_run,    \* how the first call ended, once a second one has started
    log,          \* history of the probe, mkdir, extract, callback and ASR calls and of the
                  \* rmtree of the directory the call made
    st_in,        \* _stitch_with_overlap_text under test: chunks_texts
    st_k,         \* ... <<min_k, max_k>>
    st_out,       \* ... outcome
    st_pc,        \* ... "call" | "done"
    nz_in,        \* _extract_text_safe under test: result
    nz_out,       \* ... outcome
    nz_pc,        \* ... "call" | "done"
    sm_text,      \* summarize_text: the argument text
    sm_client,    \* ... TRUE when _client is not None
    sm_retries,   \* ... the configured RETRIES
    sm_pc,        \* ... position inside summarize_text
    sm_attempt,   \* ... local attempt
    sm_delay,     \* ... local delay
    sm_log,       \* ... history of the remote calls and of the sleeps
    sm_out,       \* ... value returned
    sm_err,       \* ... exception propagating out of summarize_text
    cc_path,      \* two concurrent transcribe_audio calls: the source path of each
    cc_pc,        \* ... the position of each
    cc_i,         \* ... the chunk index each is at
    cc_dirs,      \* ... the chunk directories on disk
    cc_files,     \* ... the chunk files on disk
    cc_read,      \* ... whose audio each ASR call of each call was given
    hb_chat,      \* process_file: TRUE when update.effective_chat is set
    hb_pf,        \* ... position of the process_file coroutine
    hb_task,      \* ... position of the _heartbeat task
    hb_thread,    \* ... the worker thread running transcribe_audio
    hb_stop,      \* ... stop_event.is_set()
    hb_exc,       \* ... TRUE when an exception is pending in process_file
    hb_beats,     \* ... typing actions started so far
    hb_log,       \* ... history of what was sent, logged and set
    ud_mode,      \* the bot's handlers: user_data[STATE_MODE], or Missing
    ud_parts,     \* ... user_data[STATE_PARTS]; the empty list while the key is missing
    ud_collecting,\* ... user_data[STATE_COLLECTING], or Missing
    ss_uploads,   \* ... audio files uploaded so far in the session
    ss_shown,     \* ... the mode of the last "Current mode" line /start sent
    ss_last,      \* ... the handler that ran last and how it ended
    ss_runs       \* ... history of the processing runs: parts and mode of each

tvars == <<cfg, file, progress_cb, tmp_dir, pc, duration_sec, starts, chunks,
           texts, i, raw, full_text, err, log, stub>>
rvars == <<run, first_run>>
svars == <<st_in, st_k, st_out, st_pc>>
nvars == <<nz_in, nz_out, nz_pc>>
mvars == <<sm_text, sm_client, sm_retries, sm_pc, sm_attempt, sm_delay, sm_log,
           sm_out, sm_err>>
cvars == <<cc_path, cc_pc, cc_i, cc_dirs, cc_files, cc_read>>
hvars == <<hb_chat, hb_pf, hb_task, hb_thread, hb_stop, hb_exc, hb_beats, hb_log>>
uvars == <<ud_mode, ud_parts, ud_collecting, ss_uploads, ss_shown, ss_last, ss_runs>>
vars == <<tvars, rvars, svars, nvars, mvars, cvars, hvars, uvars>>

\* what the steps of one function leave alone: the state of the others
besidesTranscribe == <<rvars, svars, nvars, mvars, cvars, hvars, uvars>>
besidesStitch == <<tvars, rvars, nvars, mvars, cvars, hvars, uvars>>
besidesNormalize == <<tvars, rvars, svars, mvars, cvars, hvars, uvars>>
besidesSummarize == <<tvars, rvars, svars, nvars, cvars, hvars, uvars>>
besidesConcurrent == <<tvars, rvars, svars, nvars, mvars, hvars, uvars>>
besidesHeartbeat == <<tvars, rvars, svars, nvars, mvars, cvars, uvars>>
besidesSession == <<tvars, rvars, svars, nvars, mvars, cvars, hvars>>

-----------------------------------------------------------------------------
(* Program constants *)

CHUNK_SEC == 2400
OVERLAP_SEC == 12
MIN_STEP == 10
MIN_K == 10
MAX_K == 80
\* utils/llm_utils.py: the retry policy (the delay in tenths of a second)
RETRIES == 3
RETRY_BASE_DELAY_SEC == 12

(* Bounds of the model *)

MaxChunks == 4
MaxTexts == 3
MaxItems == 2

-----------------------------------------------------------------------------
(* Text helpers *)

Min2(a, b) == IF a <= b THEN a ELSE b
Max2(a, b) == IF a >= b THEN a ELSE b

IsSpace(ch) == ch \in {" ", "\n", "\t"}

\* str.strip()
Strip(s) ==
    LET keep == {n \in 1..Len(s) : ~IsSpace(s[n])}
    IN  IF keep = {} THEN <<>>
        ELSE LET first == CHOOSE n \in keep : \A m \in keep : n <= m
                 last  == CHOOSE n \in keep : \A m \in keep : n >= m
             IN  SubSeq(s, first, last)

\* s[-k:] for 1 <= k <= len(s)
Suffix(s, k) == SubSeq(s, Len(s) - k + 1, Len(s))
\* s[:k] for 0 <= k
Prefix(s, k) == SubSeq(s, 1, Min2(k, Len(s)))
\* s[k:] for 0 <= k
Drop(s, k) == SubSeq(s, k + 1, Len(s))

RECURSIVE JoinNewline(_)
\* "\n".join(out)
JoinNewline(out) ==
    IF out = <<>> THEN <<>>
    ELSE IF Len(out) = 1 THEN out[1]
    ELSE out[1] \o <<"\n">> \o JoinNewline(Tail(out))

-----------------------------------------------------------------------------
(* _stitch_with_overlap_text *)

RECURSIVE OverlapScan(_, _, _, _)
\* for k in range(max_try, min_k - 1, -1): if prev[-k:] == cur[:k]: k_found = k; break
OverlapScan(prev, cur, k, min_k) ==
    IF k < min_k THEN 0
    ELSE IF Suffix(prev, k) = Prefix(cur, k) THEN k
    ELSE OverlapScan(prev, cur, k - 1, min_k)

\* variant: the scan keeps the shortest admissible overlap, not the longest
FindOverlapShortest(prev, cur, min_k, max_k) ==
    LET ks == {k \in min_k..Min2(max_k, Min2(Len(prev), Len(cur))) :
                  Suffix(prev, k) = Prefix(cur, k)}
    IN  IF ks = {} THEN 0 ELSE CHOOSE k \in ks : \A m \in ks : k <= m

\* k_found for one (prev, cur) pair
FindOverlap(prev, cur, min_k, max_k) ==
    OverlapScan(prev, cur, Min2(max_k, Min2(Len(prev), Len(cur))), min_k)

\* variant: fragments without an overlap are joined with no space
MergePairNoSpace(prev, cur, k_found) == prev \o Drop(cur, k_found)

\* variant: the whole of cur is appended, the overlap a second time
MergePairKeepsOverlap(prev, cur, k_found) ==
    prev \o (IF k_found # 0 THEN <<>> ELSE <<" ">>) \o cur

\* variant: the new text is put in front of the accumulator
MergePairPrepends(prev, cur, k_found) == cur \o <<" ">> \o prev

\* out[-1] = prev + ("" if k_found else " ") + cur[k_found:]
MergePair(prev, cur, k_found) ==
    prev \o (IF k_found # 0 THEN <<>> ELSE <<" ">>) \o Drop(cur, k_found)

\* variant: the emptiness test is made before trimming (if not txt: continue)
SkipsChunkUntrimmed(txt) == txt = <<>>

\* whether the loop body skips this chunk text: cur = (txt or "").strip(); if not cur: continue
SkipsChunk(txt) == Strip(txt) = <<>>

\* whether the loop body starts the accumulator with this chunk: if i == 0
StartsAccumulator(pos) == pos = 1

RECURSIVE StitchLoop(_, _, _, _, _)
\* the for loop over enumerate(chunks_texts); pos is i + 1
StitchLoop(chunks_texts, pos, out, min_k, max_k) ==
    IF pos > Len(chunks_texts)
    THEN [raised |-> FALSE, text |-> Strip(JoinNewline(out))]
    ELSE LET cur == Strip(chunks_texts[pos]) IN
         IF SkipsChunk(chunks_texts[pos])
         THEN StitchLoop(chunks_texts, pos + 1, out, min_k, max_k)
         ELSE IF StartsAccumulator(pos)
         THEN StitchLoop(chunks_texts, pos + 1, Append(out, cur), min_k, max_k)
         ELSE IF out = <<>>
         THEN [raised |-> TRUE, text |-> <<>>]      \* prev = out[-1]: IndexError
         ELSE LET prev == out[Len(out)]
                  k_found == FindOverlap(prev, cur, min_k, max_k)
              IN  StitchLoop(chunks_texts, pos + 1,
                             [out EXCEPT ![Len(out)] = MergePair(prev, cur, k_found)],
                             min_k, max_k)

StitchWithOverlapText(chunks_texts, min_k, max_k) ==
    StitchLoop(chunks_texts, 1, <<>>, min_k, max_k)

-----------------------------------------------------------------------------
(* ASR collaborator results and _extract_text_safe *)

TextHello == <<"h", "e", "l", "l", "o", " ", "w", "o", "r", "l", "d", " ", "t", "o", "d", "a", "y">>
TextWorld == <<"w", "o", "r", "l", "d", " ", "t", "o", "d", "a", "y", " ", "w", "e", " ", "b", "e", "g", "i", "n">>

\* a raw result of model.transcribe(): None, a str, or a dict with or without "text"
RawNone == [kind |-> "none", has_text |-> FALSE, text |-> <<>>]
RawStr(t) == [kind |-> "str", has_text |-> TRUE, text |-> t]
RawDict(t) == [kind |-> "dict", has_text |-> TRUE, text |-> t]
RawEmptyDict == [kind |-> "dict", has_text |-> FALSE, text |-> <<>>]

\* the results the ASR stub may return for one call
AsrResults == {RawNone, RawStr(<<" ">> \o TextHello \o <<"\n">>), RawDict(TextWorld)}

\* Python truthiness of a raw result
Truthy(r) ==
    CASE r.kind = "none" -> FALSE
      [] r.kind = "str"  -> r.text # <<>>
      [] r.kind = "dict" -> r.has_text

\* model.transcribe(...) or {}
OrEmptyDict(r) == IF Truthy(r) THEN r ELSE RawEmptyDict

\* _extract_text_safe for dict and str results
ExtractTextSafe(result) ==
    CASE result.kind = "dict" -> Strip(IF result.has_text THEN result.text ELSE <<>>)
      [] result.kind = "str"  -> Strip(result.text)
      [] OTHER                -> <<>>

-----------------------------------------------------------------------------
(* _extract_text_safe over every result shape *)

\* Python values: None, str, bytes, int (text = its decimal digits), a dict
\* with or without the key "text", a list of such items
PyNone == [kind |-> "none", text |-> <<>>]
PyStr(t) == [kind |-> "str", text |-> t]
PyBytes(b) == [kind |-> "bytes", text |-> b]
PyInt(d) == [kind |-> "int", text |-> d]
PyDict(v) == [kind |-> "dict", has_text |-> TRUE, val |-> v]
PyDictNoText == [kind |-> "dict", has_text |-> FALSE, val |-> PyNone]
PyList(xs) == [kind |-> "list", items |-> xs]

\* a byte that is no valid UTF-8
BadByte == "\\xff"

\* bool(v)
PyTruthy(v) ==
    CASE v.kind = "none"  -> FALSE
      [] v.kind = "str"   -> v.text # <<>>
      [] v.kind = "bytes" -> v.text # <<>>
      [] v.kind = "int"   -> v.text # <<"0">>
      [] v.kind = "dict"  -> v.has_text
      [] v.kind = "list"  -> v.items # <<>>

\* bytes.decode("utf-8", errors="ignore")
Decode(b) == SelectSeq(b, LAMBDA c : c # BadByte)

RECURSIVE ReprBytes(_)
ReprBytes(b) ==
    IF b = <<>> THEN <<>>
    ELSE (IF Head(b) = BadByte THEN <<"\\", "x", "f", "f">> ELSE <<Head(b)>>)
         \o ReprBytes(Tail(b))

\* str(v) of None, str, int and bytes
PyStrOf(v) ==
    CASE v.kind = "none"  -> <<"N", "o", "n", "e">>
      [] v.kind = "str"   -> v.text
      [] v.kind = "int"   -> v.text
      [] v.kind = "bytes" -> <<"b", "'">> \o ReprBytes(v.text) \o <<"'">>

\* how a call of _extract_text_safe ends: a returned value and its type, or an exception
Returned(type, text) == [raised |-> FALSE, type |-> type, text |-> text]
Raised(type) == [raised |-> TRUE, type |-> type, text |-> <<>>]

\* " ".join(parts)
RECURSIVE JoinSpace(_)
JoinSpace(parts) ==
    IF parts = <<>> THEN <<>>
    ELSE IF Len(parts) = 1 THEN parts[1]
    ELSE parts[1] \o <<" ">> \o JoinSpace(Tail(parts))

\* x or ""
OrEmptyStr(x) == IF PyTruthy(x) THEN x ELSE PyStr(<<>>)

\* result.get("text", "")
GetText(d) == IF d.has_text THEN d.val ELSE PyStr(<<>>)

\* the dict branch: (txt or "").strip(), on whatever type txt has
DictBranch(result) ==
    LET txt == OrEmptyStr(GetText(result))
    IN  CASE txt.kind = "str"   -> Returned("str", Strip(txt.text))
          [] txt.kind = "bytes" -> Returned("bytes", Strip(txt.text))
          [] OTHER              -> Raised("AttributeError")

\* the part one item of an iterable result contributes
ItemPart(item) ==
    CASE item.kind = "dict"  -> Strip(PyStrOf(GetText(item)))
      [] item.kind = "str"   -> Strip(item.text)
      [] item.kind = "bytes" -> Strip(Decode(item.text))
      [] OTHER               -> Strip(PyStrOf(item))

ItemParts(items) == [n \in 1..Len(items) |-> ItemPart(items[n])]

\* _extract_text_safe; ExtractTextSafe above is its restriction to the results
\* the ASR stub of the transcribe model returns
ExtractTextSafeAny(result) ==
    CASE result.kind = "dict"  -> DictBranch(result)
      [] result.kind = "str"   -> Returned("str", Strip(result.text))
      [] result.kind = "bytes" -> Returned("str", Strip(Decode(result.text)))
      [] result.kind = "list"  ->
            Returned("str", Strip(JoinSpace(SelectSeq(ItemParts(result.items),
                                                      LAMBDA part : part # <<>>))))
      [] OTHER                 -> Returned("str", Strip(PyStrOf(OrEmptyStr(result))))

-----------------------------------------------------------------------------
(* _split_with_overlap: the chunk plan *)

\* variant: the start gap is taken from the overlap instead of budget - overlap
StepFromOverlap(chunk_sec, overlap_sec) == Max2(MIN_STEP, overlap_sec)

\* variant: the gap is kept above a tenth of a second, not above a second
StepClampedLow(chunk_sec, overlap_sec) == Max2(1, chunk_sec - overlap_sec)

\* step = max(1.0, chunk_sec - overlap_sec)
Step(chunk_sec, overlap_sec) == Max2(MIN_STEP, chunk_sec - overlap_sec)

RECURSIVE StartsFromInclusive(_, _, _)
\* variant: the loop runs while t <= dur
StartsFromInclusive(t, dur, step) ==
    IF t <= dur THEN <<t>> \o StartsFromInclusive(t + step, dur, step) ELSE <<>>

RECURSIVE StartsFrom(_, _, _)
\* t = 0.0; while t < dur: starts.append(t); t += step
StartsFrom(t, dur, step) ==
    IF t < dur THEN <<t>> \o StartsFrom(t + step, dur, step) ELSE <<>>

\* variant: the chunks are laid end to end, the overlap is forgotten
ChunkStartsNoOverlap(dur, chunk_sec, overlap_sec) ==
    StartsFrom(0, dur, Max2(MIN_STEP, chunk_sec))

ChunkStarts(dur, chunk_sec, overlap_sec) ==
    StartsFrom(0, dur, Step(chunk_sec, overlap_sec))

-----------------------------------------------------------------------------
(* Inputs of one transcribe_audio call *)

\* chunk_sec / overlap_sec pairs: the shipped one, no overlap, an overlap above
\* half the budget, an overlap above the budget, a budget less than one
\* second above the overlap
Configs ==
    {[chunk_sec |-> CHUNK_SEC, overlap_sec |-> OVERLAP_SEC],
     [chunk_sec |-> 30, overlap_sec |-> 0],
     [chunk_sec |-> 30, overlap_sec |-> 20],
     [chunk_sec |-> 30, overlap_sec |-> 40],
     [chunk_sec |-> 10, overlap_sec |-> 5]}

\* durations around every chunk boundary, for at most MaxChunks chunks
DurationsOf(c) ==
    LET step == Step(c.chunk_sec, c.overlap_sec)
    IN  {d \in 0..((MaxChunks - 1) * step + 1) :
            \E e \in {-1, 0, 1} :
                \/ \E n \in 0..MaxChunks : d = n * step + e
                \/ d = c.chunk_sec + e}

FilesOf(c) ==
    {[exists |-> FALSE, probe_ok |-> FALSE, duration |-> 0],
     [exists |-> TRUE, probe_ok |-> FALSE, duration |-> 0]}
    \cup {[exists |-> TRUE, probe_ok |-> TRUE, duration |-> d] : d \in DurationsOf(c)}

\* the chunk directory before the call: absent, or left behind by an earlier run
InitialTmpDirs ==
    {[exists |-> FALSE, files |-> {}], [exists |-> TRUE, files |-> {0, 1}]}

-----------------------------------------------------------------------------
(* Exceptions and events *)

NoError == [type |-> "none", index |-> -1, total |-> -1]

\* FileNotFoundError(f"Audio file not found: {audio_path}")
NotFoundError == [type |-> "FileNotFoundError", index |-> -1, total |-> -1]

\* what ffprobe's check_output / float() raise
ProbeError == [type |-> "CalledProcessError", index |-> -1, total |-> -1]

\* RuntimeError(f"Transcription failed for {audio_path}: {e}")
WholeFileError == [type |-> "RuntimeError", index |-> -1, total |-> -1]

\* variant: the message carries the 0-based position of the chunk
ChunkErrorZeroBased(n, total) ==
    [type |-> "RuntimeError", index |-> n - 1, total |-> total]

\* RuntimeError(f"Transcription failed for chunk {i}/{total} ({ch.name}): {e}")
ChunkError(n, total) == [type |-> "RuntimeError", index |-> n, total |-> total]

\* CalledProcessError of ffmpeg's check_call: its message holds the command,
\* so the output path chunk_{idx:03d}.opus, and the exit status
ExtractError(idx) == [type |-> "CalledProcessError", index |-> idx, total |-> -1]

\* IndexError of out[-1] inside _stitch_with_overlap_text
StitchError == [type |-> "IndexError", index |-> -1, total |-> -1]

Event(ev, arg, ok) == [ev |-> ev, arg |-> arg, ok |-> ok]

\* shutil.rmtree(tmp_dir, ignore_errors=True)
RmTree(d) == [exists |-> FALSE, files |-> {}]

\* dst_dir.mkdir(parents=True, exist_ok=True)
MkDir(d) == [d EXCEPT !.exists = TRUE]

\* ffmpeg -y ... str(out): writes chunk file idx
WriteChunk(d, idx) == [d EXCEPT !.files = @ \cup {idx}]

\* variant: a duration equal to the budget is sent to the chunked branch
TakesShortPathStrict(dur, chunk_sec) == dur < chunk_sec

\* if duration_sec <= CHUNK_SEC
TakesShortPath(dur, chunk_sec) == dur <= chunk_sec

-----------------------------------------------------------------------------
(* transcribe_audio, one step per action *)

\* the deterministic ASR stub: a chunk it has answered before gets the same answer
StubAnswer(ok, r) == [ok |-> ok, result |-> r]
StubAllows(n, ok, r) == n \in DOMAIN stub => stub[n] = StubAnswer(ok, r)
StubWith(n, ok, r) == (n :> StubAnswer(ok, r)) @@ stub

\* no first call has ended yet
NoFirst == [pc |-> "none", text |-> <<>>, err |-> NoError]

\* no call of transcribe_audio is under way
TranscribeIdle ==
    /\ cfg = [chunk_sec |-> CHUNK_SEC, overlap_sec |-> OVERLAP_SEC]
    /\ file = [exists |-> FALSE, probe_ok |-> FALSE, duration |-> 0]
    /\ progress_cb = FALSE
    /\ tmp_dir = [exists |-> FALSE, files |-> {}]
    /\ pc = "idle"
    /\ duration_sec = 0
    /\ starts = <<>>
    /\ chunks = <<>>
    /\ texts = <<>>
    /\ i = 0
    /\ raw = RawNone
    /\ full_text = <<>>
    /\ err = NoError
    /\ log = <<>>
    /\ stub = <<>>
    /\ run = 1
    /\ first_run = NoFirst

\* no call of _stitch_with_overlap_text alone is under way
StitchIdle ==
    /\ st_in = <<>>
    /\ st_k = <<MIN_K, MAX_K>>
    /\ st_out = [raised |-> FALSE, text |-> <<>>]
    /\ st_pc = "idle"

\* no call of _extract_text_safe alone is under way
NormalizeIdle ==
    /\ nz_in = PyNone
    /\ nz_out = Returned("str", <<>>)
    /\ nz_pc = "idle"

\* no call of summarize_text is under way
SummarizeIdle ==
    /\ sm_text = PyNone
    /\ sm_client = FALSE
    /\ sm_retries = RETRIES
    /\ sm_pc = "idle"
    /\ sm_attempt = 0
    /\ sm_delay = 0
    /\ sm_log = <<>>
    /\ sm_out = [kind |-> "none", tag |-> ""]
    /\ sm_err = ""

\* no pair of concurrent calls is under way
ConcurrentIdle ==
    /\ cc_path = <<>>
    /\ cc_pc = <<>>
    /\ cc_i = <<>>
    /\ cc_dirs = {}
    /\ cc_files = {}
    /\ cc_read = <<>>

HeartbeatIdle ==
    /\ hb_chat = FALSE
    /\ hb_pf = "idle"
    /\ hb_task = "idle"
    /\ hb_thread = "idle"
    /\ hb_stop = FALSE
    /\ hb_exc = FALSE
    /\ hb_beats = 0
    /\ hb_log = <<>>

SessionIdle ==
    /\ ud_mode = ""
    /\ ud_parts = <<>>
    /\ ud_collecting = ""
    /\ ss_uploads = 0
    /\ ss_shown = ""
    /\ ss_last = <<>>
    /\ ss_runs = <<>>

Init ==
    /\ cfg \in Configs
    /\ file \in FilesOf(cfg)
    /\ progress_cb \in BOOLEAN
    /\ tmp_dir \in InitialTmpDirs
    /\ pc = "check_exists"
    /\ duration_sec = 0
    /\ starts = <<>>
    /\ chunks = <<>>
    /\ texts = <<>>
    /\ i = 0
    /\ raw = RawNone
    /\ full_text = <<>>
    /\ err = NoError
    /\ log = <<>>
    /\ stub = <<>>
    /\ run = 1
    /\ first_run = NoFirst
    /\ StitchIdle
    /\ NormalizeIdle
    /\ SummarizeIdle
    /\ ConcurrentIdle
    /\ HeartbeatIdle
    /\ SessionIdle

\* raise: the exception leaves transcribe_audio
Raise(e) == pc' = "raised" /\ err' = e

\* variant: the existence test is left out
CheckExistsSkipped ==
    /\ pc = "check_exists"
    /\ pc' = "probe"
    /\ UNCHANGED <<stub, cfg, file, progress_cb, tmp_dir, duration_sec, starts, chunks,
                   texts, i, raw, full_text, err, log>>
    /\ UNCHANGED besidesTranscribe

\* if not audio_path.exists(): raise FileNotFoundError
CheckExists ==
    /\ pc = "check_exists"
    /\ IF file.exists
       THEN pc' = "probe" /\ err' = err
       ELSE Raise(NotFoundError)
    /\ UNCHANGED <<stub, cfg, file, progress_cb, tmp_dir, duration_sec, starts, chunks,
                   texts, i, raw, full_text, log>>
    /\ UNCHANGED besidesTranscribe

\* variant: a failed probe counts as a duration of 0.0
ProbeDurationSwallows ==
    /\ pc = "probe"
    /\ log' = Append(log, Event("probe", 0, file.probe_ok))
    /\ duration_sec' = IF file.probe_ok THEN file.duration ELSE 0
    /\ pc' = IF TakesShortPath(IF file.probe_ok THEN file.duration ELSE 0, cfg.chunk_sec)
             THEN "short" ELSE "rm_stale"
    /\ UNCHANGED <<stub, cfg, file, progress_cb, tmp_dir, starts, chunks, texts, i, raw,
                   full_text, err>>
    /\ UNCHANGED besidesTranscribe

\* duration_sec = _probe_duration_seconds(audio_path), then the branch on CHUNK_SEC
ProbeDuration ==
    /\ pc = "probe"
    /\ log' = Append(log, Event("probe", 0, file.probe_ok))
    /\ IF file.probe_ok
       THEN /\ duration_sec' = file.duration
            /\ pc' = IF TakesShortPath(file.duration, cfg.chunk_sec)
                     THEN "short" ELSE "rm_stale"
            /\ err' = err
       ELSE /\ Raise(ProbeError)
            /\ duration_sec' = duration_sec
    /\ UNCHANGED <<stub, cfg, file, progress_cb, tmp_dir, starts, chunks, texts, i, raw,
                   full_text>>
    /\ UNCHANGED besidesTranscribe

\* short files: one model.transcribe on the source file, normalise, return
ShortTranscribe ==
    /\ pc = "short"
    /\ \/ /\ StubAllows(0, FALSE, RawNone)
          /\ stub' = StubWith(0, FALSE, RawNone)
          /\ log' = Append(log, Event("asr", 0, FALSE))
          /\ Raise(WholeFileError)
          /\ UNCHANGED <<raw, full_text>>
       \/ \E r \in AsrResults :
             /\ StubAllows(0, TRUE, r)
             /\ stub' = StubWith(0, TRUE, r)
             /\ log' = Append(log, Event("asr", 0, TRUE))
             /\ raw' = OrEmptyDict(r)
             /\ full_text' = ExtractTextSafe(OrEmptyDict(r))
             /\ pc' = "returned"
             /\ err' = err
    /\ UNCHANGED <<cfg, file, progress_cb, tmp_dir, duration_sec, starts, chunks,
                   texts, i>>
    /\ UNCHANGED besidesTranscribe

\* variant: a directory found on disk is kept
RemoveStaleDirKeeps ==
    /\ pc = "rm_stale"
    /\ pc' = "split"
    /\ UNCHANGED <<stub, cfg, file, progress_cb, tmp_dir, duration_sec, starts, chunks,
                   texts, i, raw, full_text, err, log>>
    /\ UNCHANGED besidesTranscribe

\* if tmp_dir.exists(): shutil.rmtree(tmp_dir, ignore_errors=True)
RemoveStaleDir ==
    /\ pc = "rm_stale"
    /\ tmp_dir' = IF tmp_dir.exists THEN RmTree(tmp_dir) ELSE tmp_dir
    /\ pc' = "split"
    /\ UNCHANGED <<stub, cfg, file, progress_cb, duration_sec, starts, chunks, texts, i,
                   raw, full_text, err, log>>
    /\ UNCHANGED besidesTranscribe

\* _split_with_overlap up to the extraction loop: mkdir, probe again, plan the starts
SplitPlan ==
    /\ pc = "split"
    /\ tmp_dir' = MkDir(tmp_dir)
    /\ log' = log \o <<Event("mkdir", 0, TRUE), Event("probe", 0, file.probe_ok)>>
    /\ IF file.probe_ok
       THEN /\ starts' = ChunkStarts(file.duration, cfg.chunk_sec, cfg.overlap_sec)
            /\ pc' = "extract"
            /\ err' = err
       ELSE /\ Raise(ProbeError)
            /\ starts' = starts
    /\ UNCHANGED <<stub, cfg, file, progress_cb, duration_sec, chunks, texts, i, raw,
                   full_text>>
    /\ UNCHANGED besidesTranscribe

\* one iteration of the extraction loop (ffmpeg check_call), or its end:
\* return paths; texts = []; total = len(chunks)
ExtractChunk ==
    /\ pc = "extract"
    /\ IF Len(chunks) < Len(starts)
       THEN LET idx == Len(chunks) IN
            \/ /\ tmp_dir' = WriteChunk(tmp_dir, idx)
               /\ chunks' = Append(chunks, idx)
               /\ log' = Append(log, Event("extract", idx, TRUE))
               /\ UNCHANGED <<pc, err, i>>
            \/ /\ log' = Append(log, Event("extract", idx, FALSE))
               /\ Raise(ExtractError(idx))
               /\ UNCHANGED <<tmp_dir, chunks, i>>
       ELSE /\ i' = 1
            /\ pc' = IF Len(chunks) = 0 THEN "stitch" ELSE "progress"
            /\ UNCHANGED <<tmp_dir, chunks, log, err>>
    /\ UNCHANGED <<stub, cfg, file, progress_cb, duration_sec, starts, texts, raw, full_text>>
    /\ UNCHANGED besidesTranscribe

\* variant: the exception of the callback is not caught
CallbackPropagates ==
    pc' = "raised" /\ err' = [type |-> "CallbackError", index |-> i, total |-> Len(chunks)]

\* what an exception of progress_cb(i, total) does: except Exception: pass
CallbackRaised == pc' = "asr" /\ err' = err

\* if progress_cb: try: progress_cb(i, total) except Exception: pass
ProgressStep ==
    /\ pc = "progress"
    /\ IF progress_cb
       THEN \/ /\ log' = Append(log, Event("cb", i, TRUE))
               /\ pc' = "asr"
               /\ err' = err
            \/ /\ log' = Append(log, Event("cb", i, FALSE))
               /\ CallbackRaised
       ELSE /\ pc' = "asr"
            /\ UNCHANGED <<log, err>>
    /\ UNCHANGED <<stub, cfg, file, progress_cb, tmp_dir, duration_sec, starts, chunks,
                   texts, i, raw, full_text>>
    /\ UNCHANGED besidesTranscribe

\* variant: a failed chunk is tried again
ChunkFailedRetries ==
    /\ log' = Append(log, Event("asr", i, FALSE))
    /\ UNCHANGED <<tmp_dir, pc, err>>

\* what an ASR exception on chunk i does: rmtree, raise RuntimeError naming i/total
ChunkFailed ==
    /\ log' = log \o <<Event("asr", i, FALSE), Event("rmtree", 0, TRUE)>>
    /\ tmp_dir' = RmTree(tmp_dir)
    /\ Raise(ChunkError(i, Len(chunks)))

\* raw = model.transcribe(path=str(ch)) or {}; texts.append(_extract_text_safe(raw))
TranscribeChunk ==
    /\ pc = "asr"
    /\ \/ /\ StubAllows(i, FALSE, RawNone)
          /\ stub' = StubWith(i, FALSE, RawNone)
          /\ ChunkFailed
          /\ UNCHANGED <<raw, texts, i>>
       \/ \E r \in AsrResults :
             /\ StubAllows(i, TRUE, r)
             /\ stub' = StubWith(i, TRUE, r)
             /\ log' = Append(log, Event("asr", i, TRUE))
             /\ raw' = OrEmptyDict(r)
             /\ texts' = Append(texts, ExtractTextSafe(OrEmptyDict(r)))
             /\ i' = i + 1
             /\ pc' = IF i = Len(chunks) THEN "stitch" ELSE "progress"
             /\ UNCHANGED <<tmp_dir, err>>
    /\ UNCHANGED <<cfg, file, progress_cb, duration_sec, starts, chunks, full_text>>
    /\ UNCHANGED besidesTranscribe

\* full_text = _stitch_with_overlap_text(texts)
Stitch ==
    /\ pc = "stitch"
    /\ LET res == StitchWithOverlapText(texts, MIN_K, MAX_K) IN
       IF res.raised
       THEN Raise(StitchError) /\ full_text' = full_text
       ELSE full_text' = res.text /\ pc' = "cleanup" /\ err' = err
    /\ UNCHANGED <<stub, cfg, file, progress_cb, tmp_dir, duration_sec, starts, chunks,
                   texts, i, raw, log>>
    /\ UNCHANGED besidesTranscribe

\* shutil.rmtree(tmp_dir, ignore_errors=True); return full_text, elapsed
Cleanup ==
    /\ pc = "cleanup"
    /\ tmp_dir' = RmTree(tmp_dir)
    /\ log' = Append(log, Event("rmtree", 0, TRUE))
    /\ pc' = "returned"
    /\ UNCHANGED <<stub, cfg, file, progress_cb, duration_sec, starts, chunks, texts, i,
                   raw, full_text, err>>
    /\ UNCHANGED besidesTranscribe

Next ==
    \/ CheckExists
    \/ ProbeDuration
    \/ ShortTranscribe
    \/ RemoveStaleDir
    \/ SplitPlan
    \/ ExtractChunk
    \/ ProgressStep
    \/ TranscribeChunk
    \/ Stitch
    \/ Cleanup

Spec == Init /\ [][Next]_vars

-----------------------------------------------------------------------------
(* _stitch_with_overlap_text applied to bounded inputs *)

Alphabet == {"a", "b", " "}

\* chunk texts: every text of at most two characters, and two longer ones
StitchTexts ==
    UNION {[1..n -> Alphabet] : n \in 0..2}
    \cup {<<"a", "b", "a">>, <<"a", " ", "b">>}

TextLists == UNION {[1..n -> StitchTexts] : n \in 0..MaxTexts}

\* <<min_k, max_k>> pairs
StitchParams == {<<1, 2>>, <<2, 3>>, <<1, 3>>}

StitchInit ==
    /\ st_in \in TextLists
    /\ st_k \in StitchParams
    /\ st_out = [raised |-> FALSE, text |-> <<>>]
    /\ st_pc = "call"
    /\ TranscribeIdle
    /\ NormalizeIdle
    /\ SummarizeIdle
    /\ ConcurrentIdle
    /\ HeartbeatIdle
    /\ SessionIdle

StitchCall ==
    /\ st_pc = "call"
    /\ st_out' = StitchWithOverlapText(st_in, st_k[1], st_k[2])
    /\ st_pc' = "done"
    /\ UNCHANGED <<st_in, st_k>>
    /\ UNCHANGED besidesStitch

StitchNext == StitchCall

SpecStitch == StitchInit /\ [][StitchNext]_vars

-----------------------------------------------------------------------------
(* Vocabulary of the properties *)

Range(f) == {f[n] : n \in DOMAIN f}

Ended == pc \in {"returned", "raised"}

\* the call went past the duration test into the chunked branch
OnChunkedPath ==
    /\ file.exists /\ file.probe_ok
    /\ ~(file.duration <= cfg.chunk_sec)
    /\ pc \notin {"check_exists", "probe", "idle"}

\* the call went past the duration test into the one-shot branch
OnShortPath ==
    /\ file.exists /\ file.probe_ok
    /\ file.duration <= cfg.chunk_sec
    /\ pc \notin {"check_exists", "probe", "idle"}

EventsOf(ev) == {n \in DOMAIN log : log[n].ev = ev}
AsrCalls == Cardinality(EventsOf("asr"))

\* the chunk files this call wrote that are still on disk
LeftoverChunks == tmp_dir.files \cap Range(chunks)

CeilDiv(a, b) == (a + b - 1) \div b
AbsDiff(a, b) == IF a >= b THEN a - b ELSE b - a

-----------------------------------------------------------------------------
(* C1..C4: cleanup, failure propagation, the one-shot path *)

\* C1: after any call that took the chunked path has ended (returned, or failed
\* in extraction, in ASR or in stitching), the chunk directory and every chunk
\* file the call created no longer exist.
C1_CleanupOnEveryExit ==
    (Ended /\ OnChunkedPath) => (~tmp_dir.exists /\ LeftoverChunks = {})

\* C2: when the ASR collaborator raises on chunk n of total, the call fails
\* with an error naming n and total, and the chunk directory is already gone.
C2_AsrFailureNamesChunk ==
    \A p \in EventsOf("asr") :
        (~log[p].ok /\ log[p].arg >= 1) =>
            /\ pc = "raised"
            /\ err.type = "RuntimeError"
            /\ err.index = log[p].arg
            /\ err.total = Len(starts)
            /\ ~tmp_dir.exists
            /\ tmp_dir.files = {}

C2_Witness ==
    /\ pc = "raised"
    /\ \E p \in EventsOf("asr") : ~log[p].ok /\ log[p].arg = 2
    /\ err.index = 2
    /\ err.total = 3
    /\ ~tmp_dir.exists

\* C3: when the extraction of a chunk fails, the call fails with an error that
\* names the failing chunk index and the total chunk count, and the chunk files
\* extracted before the failure are deleted before the error propagates.
C3_ExtractFailureNamesChunkAndCleans ==
    \A p \in EventsOf("extract") :
        ~log[p].ok =>
            /\ pc = "raised"
            /\ err.index = log[p].arg
            /\ err.total = Len(starts)
            /\ LeftoverChunks = {}

\* C4: with a probed duration of at most the chunk budget, the call makes exactly
\* one ASR call, on the source file, extracts nothing, makes and removes no
\* directory, and returns that call's text trimmed.
C4_ShortPathOneCall ==
    (Ended /\ OnShortPath) =>
        /\ AsrCalls = 1
        /\ \A p \in EventsOf("asr") : log[p].arg = 0
        /\ EventsOf("extract") = {}
        /\ EventsOf("mkdir") = {}
        /\ EventsOf("rmtree") = {}
        /\ chunks = <<>>
        /\ pc = "returned" =>
              /\ full_text = Strip(raw.text)
              /\ \A r \in AsrResults : raw = OrEmptyDict(r) => full_text = Strip(r.text)

C4_Witness ==
    /\ pc = "returned"
    /\ OnShortPath
    /\ file.duration = cfg.chunk_sec
    /\ AsrCalls = 1
    /\ raw.kind = "str"
    /\ raw.text # full_text
    /\ full_text = TextHello

-----------------------------------------------------------------------------
(* C9, C10: number of ASR calls, progress callback failures *)

\* ceil((D - overlap) / (chunk_budget - overlap))
ExpectedCalls == CeilDiv(file.duration - cfg.overlap_sec, cfg.chunk_sec - cfg.overlap_sec)

\* C9 as claimed: for D above the budget and every 0 <= overlap < budget, the
\* number of ASR calls of a successful call is within 1 of
\* ceil((D - overlap) / (budget - overlap)).
C9_CallCountAnyOverlap ==
    (pc = "returned" /\ OnChunkedPath
        /\ 0 <= cfg.overlap_sec /\ cfg.overlap_sec < cfg.chunk_sec)
    => AbsDiff(AsrCalls, ExpectedCalls) <= 1

\* the overlaps for which the count is within 1: the step budget - overlap is at
\* least one second and at least the overlap
SmallOverlap ==
    /\ 0 <= cfg.overlap_sec
    /\ cfg.chunk_sec - cfg.overlap_sec >= MIN_STEP
    /\ cfg.overlap_sec <= cfg.chunk_sec - cfg.overlap_sec

\* C9 amended: for D above the budget and every overlap with
\* 0 <= overlap <= budget - overlap and budget - overlap >= 1 s, the number of
\* chunks planned, and of ASR calls of a successful call, is within 1 of
\* ceil((D - overlap) / (budget - overlap)).
C9_CallCountSmallOverlap ==
    (OnChunkedPath /\ SmallOverlap) =>
        /\ starts # <<>> => AbsDiff(Len(starts), ExpectedCalls) <= 1
        /\ pc = "returned" =>
              AsrCalls = Len(starts) /\ AbsDiff(AsrCalls, ExpectedCalls) <= 1

C9_Witness ==
    /\ pc = "returned"
    /\ OnChunkedPath
    /\ SmallOverlap
    /\ cfg.overlap_sec > 0
    /\ AsrCalls = 3
    /\ ExpectedCalls = 2

CallbackFailed == \E p \in EventsOf("cb") : ~log[p].ok

\* C10: once the progress callback has raised, the call never fails because of
\* it; it still makes every remaining ASR call, removes the chunk directory and
\* returns the stitched text of all the chunks' results.
C10_CallbackFailureIgnored ==
    CallbackFailed =>
        /\ pc = "raised" => log[Len(log)].ev # "cb"
        /\ log[Len(log)].ev = "cb" => pc = "asr"
        /\ pc = "returned" =>
              /\ AsrCalls = Len(starts)
              /\ Len(texts) = Len(starts)
              /\ ~tmp_dir.exists
              /\ full_text = StitchWithOverlapText(texts, MIN_K, MAX_K).text

C10_Witness ==
    /\ pc = "returned"
    /\ \A p \in EventsOf("cb") : ~log[p].ok
    /\ Cardinality(EventsOf("cb")) = 2
    /\ AsrCalls = 2
    /\ texts = <<TextHello, TextWorld>>
    /\ full_text = TextHello \o <<" ", "w", "e", " ", "b", "e", "g", "i", "n">>
    /\ ~tmp_dir.exists

-----------------------------------------------------------------------------
(* C5..C8: the stitching rule *)

\* the overlap lengths the rule admits between an accumulator and a chunk text
Overlaps(prev, cur, min_k, max_k) ==
    {k \in min_k..Min2(max_k, Min2(Len(prev), Len(cur))) :
        \A n \in 1..k : prev[Len(prev) - k + n] = cur[n]}

MaxOf(S) == CHOOSE k \in S : \A m \in S : m <= k

\* the list without its last element, its last element trimmed, and the
\* accumulator the earlier elements give
Front == SubSeq(st_in, 1, Len(st_in) - 1)
LastText == Strip(st_in[Len(st_in)])
Accumulated == StitchWithOverlapText(Front, st_k[1], st_k[2])

\* a stitched list whose last text is non-empty and meets a non-empty accumulator
HasPrevAndCur ==
    /\ st_pc = "done"
    /\ Len(st_in) >= 2
    /\ LastText # <<>>
    /\ ~Accumulated.raised
    /\ Accumulated.text # <<>>

\* C5: when some k in min_k..min(max_k, len(prev), len(cur)) has the last k
\* characters of the accumulator prev equal to the first k of cur, stitching
\* appends exactly cur[k:] for the largest such k, with no space.
C5_OverlapAppearsOnce ==
    (HasPrevAndCur /\ Overlaps(Accumulated.text, LastText, st_k[1], st_k[2]) # {}) =>
        LET k == MaxOf(Overlaps(Accumulated.text, LastText, st_k[1], st_k[2]))
        IN  /\ ~st_out.raised
            /\ st_out.text = Accumulated.text \o SubSeq(LastText, k + 1, Len(LastText))

C5_Witness ==
    /\ HasPrevAndCur
    /\ Cardinality(Overlaps(Accumulated.text, LastText, st_k[1], st_k[2])) >= 2
    /\ Len(st_in) = 2
    /\ st_in[1] = <<"a", "a">>
    /\ st_in[2] = <<"a", "a">>
    /\ st_out.text = <<"a", "a">>

\* C6: when no k >= min_k has the last k characters of prev equal to the first
\* k of cur (so whenever either is shorter than min_k), stitching yields prev,
\* one space, and the whole of cur.
C6_NoOverlapOneSpace ==
    (HasPrevAndCur /\ Overlaps(Accumulated.text, LastText, st_k[1], st_k[2]) = {}) =>
        /\ ~st_out.raised
        /\ st_out.text = Accumulated.text \o <<" ">> \o LastText

C6_Witness ==
    /\ HasPrevAndCur
    /\ Len(st_in) = 2
    /\ st_k[1] = 2
    /\ st_in[1] = <<"a", "b">>
    /\ st_in[2] = <<"b">>
    /\ st_out.text = <<"a", "b", " ", "b">>

RECURSIVE WithoutEmpty(_)
\* the list with its empty and whitespace-only texts removed
WithoutEmpty(ts) ==
    IF ts = <<>> THEN <<>>
    ELSE IF Strip(Head(ts)) = <<>> THEN WithoutEmpty(Tail(ts))
    ELSE <<Head(ts)>> \o WithoutEmpty(Tail(ts))

\* C7: when the first chunk text is empty or whitespace-only and a later one is
\* not, stitching does not fail and gives what the list without its empty
\* texts gives.
C7_LeadingEmptySkipped ==
    (/\ st_pc = "done"
     /\ Len(st_in) >= 2
     /\ Strip(st_in[1]) = <<>>
     /\ \E n \in 2..Len(st_in) : Strip(st_in[n]) # <<>>)
    => /\ ~st_out.raised
       /\ st_out = StitchWithOverlapText(WithoutEmpty(st_in), st_k[1], st_k[2])

\* the list without the element at position n
RemoveAt(ts, n) == SubSeq(ts, 1, n - 1) \o SubSeq(ts, n + 1, Len(ts))

\* C8: an empty or whitespace-only text at an interior position changes
\* nothing: the outcome is that of the list without it.
C8_InteriorEmptySkipped ==
    st_pc = "done" =>
        \A n \in 2..(Len(st_in) - 1) :
            Strip(st_in[n]) = <<>> =>
                st_out = StitchWithOverlapText(RemoveAt(st_in, n), st_k[1], st_k[2])

C8_Witness ==
    /\ st_pc = "done"
    /\ st_k = <<2, 3>>
    /\ st_in = << <<"a", "b">>, <<" ">>, <<"a", "b", "a">> >>
    /\ ~st_out.raised
    /\ st_out.text = <<"a", "b", "a">>

-----------------------------------------------------------------------------
(* C11, C12: order of the progress reports and of the ASR calls *)

\* C11: the callback is invoked with (n, total) only after the ASR call of
\* chunk n has completed; no progress is reported for a chunk whose ASR call
\* has not returned or has failed.
C11_ProgressAfterChunkDone ==
    \A p \in EventsOf("cb") :
        \E q \in EventsOf("asr") : q < p /\ log[q].arg = log[p].arg /\ log[q].ok

\* C12: an ASR failure on chunk n ends the call: the chunks are sent to ASR in
\* increasing order, each at most once, nothing is sent after a failure, and a
\* failed call returns no text.
C12_AsrFailureAborts ==
    /\ \A p, q \in EventsOf("asr") : p < q => log[p].arg < log[q].arg
    /\ \A p \in EventsOf("asr") :
          ~log[p].ok =>
              /\ \A q \in EventsOf("asr") : q <= p
              /\ pc = "raised"
              /\ full_text = <<>>

C12_Witness ==
    /\ pc = "raised"
    /\ Len(starts) = 3
    /\ AsrCalls = 2
    /\ \E p \in EventsOf("asr") : ~log[p].ok /\ log[p].arg = 2
    /\ texts = <<TextHello>>
    /\ full_text = <<>>

-----------------------------------------------------------------------------
(* C15, C16: a missing file, a failed probe *)

\* nothing was made or removed on disk, and no chunk was cut
DiskUntouched ==
    /\ tmp_dir \in InitialTmpDirs
    /\ EventsOf("mkdir") = {}
    /\ EventsOf("extract") = {}
    /\ EventsOf("rmtree") = {}
    /\ chunks = <<>>

\* C15: for a path that is no existing file the call fails with a not-found
\* error before any probe, extraction or ASR call, and touches nothing on disk.
C15_MissingFileFailsFirst ==
    ~file.exists =>
        /\ pc \in {"check_exists", "raised"}
        /\ pc = "raised" => err = NotFoundError
        /\ log = <<>>
        /\ DiskUntouched

C15_Witness ==
    /\ ~file.exists
    /\ pc = "raised"
    /\ err.type = "FileNotFoundError"
    /\ tmp_dir.exists
    /\ tmp_dir.files # {}

-----------------------------------------------------------------------------
(* C19, C20: when the chunks are cut, and where they start *)

\* C19: chunk n+1 is neither extracted nor transcribed until the ASR call of
\* chunk n has returned (chunk n is extraction index n-1 and ASR argument n).
C19_ExtractAfterPreviousAsr ==
    /\ \A p \in EventsOf("extract") :
          log[p].arg >= 1 =>
              \E q \in EventsOf("asr") : q < p /\ log[q].arg = log[p].arg
    /\ \A p \in EventsOf("asr") :
          log[p].arg >= 2 =>
              \E q \in EventsOf("asr") : q < p /\ log[q].arg = log[p].arg - 1

\* the span asked of ffmpeg for the chunk starting at s: -ss s -t chunk_sec
SpanEnd(s) == s + cfg.chunk_sec

\* consecutive chunks start `gap` apart and their spans share `shared`
EvenlySpaced(gap, shared) ==
    \A n \in 1..(Len(starts) - 1) :
        /\ starts[n + 1] - starts[n] = gap
        /\ SpanEnd(starts[n]) - starts[n + 1] = shared

\* C20 as stated: for every 0 <= overlap < budget, chunk n+1 starts exactly
\* budget - overlap after chunk n, so consecutive chunks share `overlap`.
C20_SpacingAnyOverlap ==
    (0 <= cfg.overlap_sec /\ cfg.overlap_sec < cfg.chunk_sec) =>
        EvenlySpaced(cfg.chunk_sec - cfg.overlap_sec, cfg.overlap_sec)

\* C20 amended: the same when budget - overlap is at least one second.
C20_SpacingStepAtLeastOneSecond ==
    (0 <= cfg.overlap_sec /\ cfg.chunk_sec - cfg.overlap_sec >= MIN_STEP) =>
        EvenlySpaced(cfg.chunk_sec - cfg.overlap_sec, cfg.overlap_sec)

C20_Witness ==
    /\ cfg.chunk_sec = CHUNK_SEC
    /\ cfg.overlap_sec = OVERLAP_SEC
    /\ Len(starts) = 3
    /\ starts[2] - starts[1] = CHUNK_SEC - OVERLAP_SEC
    /\ SpanEnd(starts[2]) - starts[3] = OVERLAP_SEC
    /\ Len(chunks) = 3


-----------------------------------------------------------------------------
(* _extract_text_safe on its own *)

PyTexts == {<<>>, <<" ">>, <<"a">>, <<" ", "a", "\n">>, <<"a", " ", "b">>}
PyByteStrings == {<<>>, <<"a", " ">>, <<BadByte, "a">>}
PyScalars ==
    {PyNone, PyInt(<<"0">>), PyInt(<<"5">>)}
        \cup {PyStr(t) : t \in PyTexts}
        \cup {PyBytes(b) : b \in PyByteStrings}
PyItems == PyScalars \cup {PyDictNoText} \cup {PyDict(v) : v \in PyScalars}
PyLists == UNION {{PyList(xs) : xs \in [1..n -> PyItems]} : n \in 0..MaxItems}
PyResults == PyItems \cup PyLists

NormalizeInit ==
    /\ nz_in \in PyResults
    /\ nz_out = Returned("str", <<>>)
    /\ nz_pc = "call"
    /\ TranscribeIdle
    /\ StitchIdle
    /\ SummarizeIdle
    /\ ConcurrentIdle
    /\ HeartbeatIdle
    /\ SessionIdle

NormalizeCall ==
    /\ nz_pc = "call"
    /\ nz_out' = ExtractTextSafeAny(nz_in)
    /\ nz_pc' = "done"
    /\ UNCHANGED nz_in
    /\ UNCHANGED besidesNormalize

NormalizeNext == NormalizeCall

SpecNormalize == NormalizeInit /\ [][NormalizeNext]_vars

\* whitespace neither at the head nor at the end
Trimmed(t) == t = <<>> \/ (~IsSpace(Head(t)) /\ ~IsSpace(t[Len(t)]))

\* C13: normalizing an ASR result never raises and returns a string with no
\* leading or trailing whitespace, whatever the shape of the result.
C13_NormalizeTotal ==
    nz_pc = "done" =>
        /\ ~nz_out.raised
        /\ nz_out.type = "str"
        /\ Trimmed(nz_out.text)


-----------------------------------------------------------------------------
(* utils/llm_utils.py: summarize_text and _call_openai_summary *)

\* the texts a caller may pass: non-strings, empty, blank, and real text
SummaryInputs == {PyNone, PyInt(<<"5">>), PyStr(<<>>), PyStr(<<" ", "\n">>), PyStr(<<"a">>)}

\* the values RETRIES may be configured to
RetryValues == -1..RETRIES

\* how one responses.create call may end: output_text a str, None, or a
\* non-string; or one of the exceptions of the client library
RemoteOutcomes ==
    {"text", "none", "nonstr", "APIConnectionError", "RateLimitError",
     "BadRequestError", "AuthenticationError"}

\* what _call_openai_summary raises for an outcome of the remote call, "" if it returns
RaisedBy(outcome) ==
    CASE outcome \in {"text", "none"} -> ""
      [] outcome = "nonstr"           -> "AttributeError"
      [] OTHER                        -> outcome

\* variant: the except chain without its last clause
ExceptClauseNoCatchAll(exc) ==
    CASE exc \in {"APIConnectionError", "RateLimitError"} -> "transient"
      [] exc = "BadRequestError"                          -> "bad_request"
      [] OTHER                                            -> "uncaught"

\* variant: a bad request is retried like a connection error
ExceptClauseRetriesBadRequest(exc) ==
    CASE exc \in {"APIConnectionError", "RateLimitError", "BadRequestError"} -> "transient"
      [] OTHER                                                              -> "generic"

\* the except clause of summarize_text that catches exc
ExceptClause(exc) ==
    CASE exc \in {"APIConnectionError", "RateLimitError"} -> "transient"
      [] exc = "BadRequestError"                          -> "bad_request"
      [] OTHER                                            -> "generic"

\* a returned str, named by the message it carries
SummaryOut(tag) == [kind |-> "str", tag |-> tag]

\* entries of sm_log: a responses.create call and how it ended, a sleep and its length
CallEvent(attempt, outcome) == [ev |-> "call", arg |-> attempt, out |-> outcome]
SleepEvent(delay) == [ev |-> "sleep", arg |-> delay, out |-> ""]
NoSummary == [kind |-> "none", tag |-> ""]

SummarizeInit ==
    /\ sm_text \in SummaryInputs
    /\ sm_client \in BOOLEAN
    /\ sm_retries \in RetryValues
    /\ sm_pc = "enter"
    /\ sm_attempt = 0
    /\ sm_delay = 0
    /\ sm_log = <<>>
    /\ sm_out = NoSummary
    /\ sm_err = ""
    /\ TranscribeIdle
    /\ StitchIdle
    /\ NormalizeIdle
    /\ ConcurrentIdle
    /\ HeartbeatIdle
    /\ SessionIdle

SummaryReturn(tag) == sm_pc' = "returned" /\ sm_out' = SummaryOut(tag) /\ sm_err' = sm_err

\* the guard on text, then the first turn of the loop over range(1, max(1, RETRIES) + 1)
SummarizeEnter ==
    /\ sm_pc = "enter"
    /\ IF sm_text.kind # "str" \/ Strip(sm_text.text) = <<>>
       THEN SummaryReturn("no_text") /\ UNCHANGED <<sm_attempt, sm_delay>>
       ELSE /\ sm_attempt' = 1
            /\ sm_delay' = RETRY_BASE_DELAY_SEC
            /\ sm_pc' = "attempt"
            /\ UNCHANGED <<sm_out, sm_err>>
    /\ UNCHANGED <<sm_text, sm_client, sm_retries, sm_log>>
    /\ UNCHANGED besidesSummarize

\* what summarize_text does with exception exc of attempt sm_attempt
HandleException(exc) ==
    CASE ExceptClause(exc) = "transient" ->
            IF sm_attempt < sm_retries
            THEN sm_pc' = "sleep" /\ UNCHANGED <<sm_out, sm_err>>
            ELSE SummaryReturn("failed_after_retries")
      [] ExceptClause(exc) = "bad_request" -> SummaryReturn("failed_bad_request")
      [] ExceptClause(exc) = "generic" -> SummaryReturn("failed")
      [] OTHER -> sm_pc' = "raised" /\ sm_err' = exc /\ sm_out' = sm_out

\* one turn of the loop: _call_openai_summary(text) and the except clauses
SummarizeAttempt ==
    /\ sm_pc = "attempt"
    /\ IF ~sm_client
       THEN /\ HandleException("RuntimeError")
            /\ sm_log' = sm_log
       ELSE \E outcome \in RemoteOutcomes :
            /\ sm_log' = Append(sm_log, CallEvent(sm_attempt, outcome))
            /\ IF RaisedBy(outcome) = ""
               THEN SummaryReturn("summary")
               ELSE HandleException(RaisedBy(outcome))
    /\ UNCHANGED <<sm_text, sm_client, sm_retries, sm_attempt, sm_delay>>
    /\ UNCHANGED besidesSummarize

\* time.sleep(delay); delay *= 2; continue
SummarizeSleep ==
    /\ sm_pc = "sleep"
    /\ sm_log' = Append(sm_log, SleepEvent(sm_delay))
    /\ sm_delay' = sm_delay * 2
    /\ sm_attempt' = sm_attempt + 1
    /\ IF sm_attempt + 1 <= Max2(1, sm_retries)
       THEN sm_pc' = "attempt" /\ UNCHANGED <<sm_out, sm_err>>
       ELSE SummaryReturn("failed_unknown")
    /\ UNCHANGED <<sm_text, sm_client, sm_retries>>
    /\ UNCHANGED besidesSummarize

SummarizeNext ==
    \/ SummarizeEnter
    \/ SummarizeAttempt
    \/ SummarizeSleep

SpecSummarize == SummarizeInit /\ [][SummarizeNext]_vars

\* C18: summarize_text always returns a string and never raises, whatever the
\* text, with or without an API client, however the remote calls fail.
C18_SummarizeNeverRaises ==
    /\ sm_pc # "raised"
    /\ sm_err = ""
    /\ sm_pc = "returned" => sm_out.kind = "str"
    /\ (sm_pc = "returned" /\ (sm_text.kind # "str" \/ ~sm_client)) =>
          sm_out.tag \in {"no_text", "failed"} /\ sm_log = <<>>

C18_Witness ==
    /\ sm_pc = "returned"
    /\ sm_text = PyStr(<<"a">>)
    /\ ~sm_client
    /\ sm_out = SummaryOut("failed")


-----------------------------------------------------------------------------
(* Two calls of transcribe_audio at once, on the chunked path, on one disk *)

Calls == {1, 2}
OtherCall(k) == CHOOSE other \in Calls : other # k

\* resolved source paths: <parent>/<stem><ext>, as handle_audio names its downloads
CcPaths == [parent : {"parts", "merged"}, stem : {"7_100", "7_101"}, ext : {".ogg", ".mp3"}]

\* audio_path.parent / f"{audio_path.stem}_chunks": the suffix is dropped
TmpDirOf(path) == [parent |-> path.parent, stem |-> path.stem]

\* the chunk files each call cuts: chunk_000, chunk_001
CcChunkIdx == {0, 1}
CcLastIdx == CHOOSE n \in CcChunkIdx : \A m \in CcChunkIdx : m <= n

\* a chunk file on disk and the call whose audio it holds
CcFile(d, idx, owner) == [dir |-> d, idx |-> idx, owner |-> owner]

\* shutil.rmtree(d, ignore_errors=True): the directory and everything in it
CcRmTree(d) ==
    /\ cc_dirs' = cc_dirs \ {d}
    /\ cc_files' = {f \in cc_files : f.dir # d}

ConcurrentInit ==
    /\ cc_path \in {f \in [Calls -> CcPaths] : f[1] # f[2]}
    /\ cc_pc = [k \in Calls |-> "rm_stale"]
    /\ cc_i = [k \in Calls |-> 0]
    /\ cc_dirs = {}
    /\ cc_files = {}
    /\ cc_read = [k \in Calls |-> <<>>]
    /\ TranscribeIdle
    /\ StitchIdle
    /\ NormalizeIdle
    /\ SummarizeIdle
    /\ HeartbeatIdle
    /\ SessionIdle

\* if tmp_dir.exists(): shutil.rmtree(tmp_dir, ignore_errors=True)
CcRemoveStale ==
    \E k \in Calls :
        /\ cc_pc[k] = "rm_stale"
        /\ IF TmpDirOf(cc_path[k]) \in cc_dirs
           THEN CcRmTree(TmpDirOf(cc_path[k]))
           ELSE UNCHANGED <<cc_dirs, cc_files>>
        /\ cc_pc' = [cc_pc EXCEPT ![k] = "mkdir"]
        /\ UNCHANGED <<cc_path, cc_i, cc_read>>
        /\ UNCHANGED besidesConcurrent

\* out_dir.mkdir(parents=True, exist_ok=True)
CcMkDir ==
    \E k \in Calls :
        /\ cc_pc[k] = "mkdir"
        /\ cc_dirs' = cc_dirs \cup {TmpDirOf(cc_path[k])}
        /\ cc_pc' = [cc_pc EXCEPT ![k] = "extract"]
        /\ cc_i' = [cc_i EXCEPT ![k] = 0]
        /\ UNCHANGED <<cc_path, cc_files, cc_read>>
        /\ UNCHANGED besidesConcurrent

\* ffmpeg -y ... out_dir/chunk_<idx>.opus: fails when the directory is gone,
\* replaces a file of that name otherwise
CcExtract ==
    \E k \in Calls :
        /\ cc_pc[k] = "extract"
        /\ IF TmpDirOf(cc_path[k]) \notin cc_dirs
           THEN /\ cc_pc' = [cc_pc EXCEPT ![k] = "raised"]
                /\ UNCHANGED <<cc_files, cc_i>>
           ELSE /\ cc_files' =
                      {f \in cc_files : ~(f.dir = TmpDirOf(cc_path[k]) /\ f.idx = cc_i[k])}
                          \cup {CcFile(TmpDirOf(cc_path[k]), cc_i[k], k)}
                /\ IF cc_i[k] = CcLastIdx
                   THEN /\ cc_pc' = [cc_pc EXCEPT ![k] = "asr"]
                        /\ cc_i' = [cc_i EXCEPT ![k] = 0]
                   ELSE /\ cc_pc' = cc_pc
                        /\ cc_i' = [cc_i EXCEPT ![k] = @ + 1]
        /\ UNCHANGED <<cc_path, cc_dirs, cc_read>>
        /\ UNCHANGED besidesConcurrent

\* model.transcribe(str(chunk)): reads whatever lies at the chunk's path; a
\* missing file is an ASR failure, answered by rmtree and RuntimeError
CcTranscribeChunk ==
    \E k \in Calls :
        /\ cc_pc[k] = "asr"
        /\ IF \E f \in cc_files : f.dir = TmpDirOf(cc_path[k]) /\ f.idx = cc_i[k]
           THEN /\ \E f \in cc_files :
                      /\ f.dir = TmpDirOf(cc_path[k]) /\ f.idx = cc_i[k]
                      /\ cc_read' = [cc_read EXCEPT ![k] = Append(@, f.owner)]
                /\ IF cc_i[k] = CcLastIdx
                   THEN cc_pc' = [cc_pc EXCEPT ![k] = "cleanup"] /\ cc_i' = cc_i
                   ELSE cc_pc' = cc_pc /\ cc_i' = [cc_i EXCEPT ![k] = @ + 1]
                /\ UNCHANGED <<cc_dirs, cc_files>>
           ELSE /\ CcRmTree(TmpDirOf(cc_path[k]))
                /\ cc_pc' = [cc_pc EXCEPT ![k] = "raised"]
                /\ UNCHANGED <<cc_i, cc_read>>
        /\ UNCHANGED cc_path
        /\ UNCHANGED besidesConcurrent

\* shutil.rmtree(tmp_dir, ignore_errors=True) after stitching
CcCleanup ==
    \E k \in Calls :
        /\ cc_pc[k] = "cleanup"
        /\ CcRmTree(TmpDirOf(cc_path[k]))
        /\ cc_pc' = [cc_pc EXCEPT ![k] = "returned"]
        /\ UNCHANGED <<cc_path, cc_i, cc_read>>
        /\ UNCHANGED besidesConcurrent

ConcurrentNext ==
    \/ CcRemoveStale
    \/ CcMkDir
    \/ CcExtract
    \/ CcTranscribeChunk
    \/ CcCleanup

SpecConcurrent == ConcurrentInit /\ [][ConcurrentNext]_vars

\* the chunk files call k has cut and not yet removed are on disk and hold its audio
OwnChunksIntact(k) ==
    cc_pc[k] \in {"asr", "cleanup"} =>
        \A idx \in CcChunkIdx : CcFile(TmpDirOf(cc_path[k]), idx, k) \in cc_files

\* C14: two concurrent calls on different sources use distinct temporary
\* directories and never create, overwrite or delete each other's chunk files:
\* no call fails or reads the other's audio because of the other.
C14_CallsDoNotInterfere ==
    /\ \A k \in Calls :
          cc_pc[k] \notin {"rm_stale", "mkdir"} =>
              TmpDirOf(cc_path[k]) # TmpDirOf(cc_path[OtherCall(k)])
    /\ \A k \in Calls :
          /\ OwnChunksIntact(k)
          /\ cc_pc[k] # "raised"
          /\ \A n \in 1..Len(cc_read[k]) : cc_read[k][n] = k


-----------------------------------------------------------------------------
(* transcribe_audio run twice on the same file, with a deterministic ASR stub *)

RerunInit ==
    /\ Init
    /\ ~progress_cb

\* the second call: same path, same parameters, same stub, the disk as the
\* first call left it; the locals start afresh
RerunStart ==
    /\ run = 1
    /\ pc \in {"returned", "raised"}
    /\ run' = 2
    /\ first_run' = [pc |-> pc, text |-> full_text, err |-> err]
    /\ pc' = "check_exists"
    /\ duration_sec' = 0
    /\ starts' = <<>>
    /\ chunks' = <<>>
    /\ texts' = <<>>
    /\ i' = 0
    /\ raw' = RawNone
    /\ full_text' = <<>>
    /\ err' = NoError
    /\ log' = <<>>
    /\ UNCHANGED <<stub, cfg, file, progress_cb, tmp_dir>>
    /\ UNCHANGED <<svars, nvars, mvars, cvars, hvars, uvars>>

RerunNext ==
    \/ CheckExists
    \/ ProbeDuration
    \/ ShortTranscribe
    \/ RemoveStaleDir
    \/ SplitPlan
    \/ ExtractChunk
    \/ ProgressStep
    \/ TranscribeChunk
    \/ Stitch
    \/ Cleanup
    \/ RerunStart

SpecRerun == RerunInit /\ [][RerunNext]_vars

\* between the plan and the cleanup the directory holds the chunk files this
\* call has cut and nothing else
OnlyOwnChunkFiles ==
    pc \in {"split", "extract", "progress", "asr", "stitch", "cleanup"} =>
        tmp_dir.files = Range(chunks)

\* C17: a second run on the same file with the same parameters and a
\* deterministic ASR stub returns the text the first run returned, and works
\* on nothing the first run left on disk.
C17_RerunSameText ==
    /\ (run = 2 /\ pc = "returned" /\ first_run.pc = "returned") => full_text = first_run.text
    /\ (run = 2 /\ first_run.pc = "returned") => pc # "raised" \/ err.type = "CalledProcessError"
    /\ OnlyOwnChunkFiles

C17_Witness ==
    /\ run = 2
    /\ pc = "returned"
    /\ first_run.pc = "returned"
    /\ Len(texts) = 3
    /\ full_text = first_run.text
    /\ full_text # <<>>


-----------------------------------------------------------------------------
(* C24: the retry policy of summarize_text *)

SmEvents(ev) == {p \in 1..Len(sm_log) : sm_log[p].ev = ev}

RECURSIVE Pow2(_)
Pow2(n) == IF n <= 0 THEN 1 ELSE 2 * Pow2(n - 1)

Transient == {"APIConnectionError", "RateLimitError"}

\* C24: at most max(1, RETRIES) remote calls; a further call only after a
\* connection or rate-limit error on an attempt below RETRIES, after a sleep
\* whose length doubles each time; any other exception ends the invocation
\* after that call.
C24_RetryPolicy ==
    /\ Cardinality(SmEvents("call")) <= Max2(1, sm_retries)
    /\ \A p \in SmEvents("call") :
          /\ sm_log[p].arg = Cardinality({q \in SmEvents("call") : q <= p})
          /\ p > 1 =>
                /\ sm_log[p - 1].ev = "sleep"
                /\ sm_log[p - 2].ev = "call"
                /\ sm_log[p - 2].out \in Transient
                /\ sm_log[p - 2].arg < sm_retries
          /\ (RaisedBy(sm_log[p].out) # "" /\ sm_log[p].out \notin Transient) =>
                p = Len(sm_log) /\ sm_pc = "returned"
    /\ \A p \in SmEvents("sleep") :
          /\ p > 1 /\ sm_log[p - 1].ev = "call"
          /\ sm_log[p].arg =
                RETRY_BASE_DELAY_SEC * Pow2(Cardinality({q \in SmEvents("sleep") : q < p}))

C24_Witness ==
    /\ sm_pc = "returned"
    /\ sm_retries = RETRIES
    /\ Cardinality(SmEvents("call")) = RETRIES
    /\ Cardinality(SmEvents("sleep")) = RETRIES - 1
    /\ sm_log[Len(sm_log) - 1].arg = 2 * RETRY_BASE_DELAY_SEC
    /\ sm_out = SummaryOut("failed_after_retries")


-----------------------------------------------------------------------------
(* C26, C27: the chunk plan *)

\* the plan of _split_with_overlap has been computed
Planned == pc \in {"extract", "progress", "asr", "stitch", "cleanup", "returned"}
              \/ starts # <<>>

\* C26: for every duration D and every budget/overlap pair, overlap >= budget
\* included, the plan has at most ceil(D) offsets (D in seconds), strictly
\* increasing, the first 0, all below D.
C26_PlanBounded ==
    Planned =>
        /\ Len(starts) <= CeilDiv(file.duration, MIN_STEP)
        /\ \A n \in 1..Len(starts) : 0 <= starts[n] /\ starts[n] < file.duration
        /\ \A n \in 1..(Len(starts) - 1) : starts[n] < starts[n + 1]
        /\ starts # <<>> => starts[1] = 0

C26_Witness ==
    /\ cfg.overlap_sec > cfg.chunk_sec
    /\ Len(starts) = 4
    /\ starts[4] - starts[3] = MIN_STEP
    /\ pc = "returned"

\* chunk n (n >= 2) holds audio that chunk n-1 does not cover
AddsAudio(n) == starts[n - 1] + cfg.chunk_sec < file.duration

-----------------------------------------------------------------------------
(* C28: the two duration probes of one call, on a file that may change *)

ReprobeInit ==
    /\ Init
    /\ ~progress_cb
    /\ ~tmp_dir.exists

\* the file at audio_path is written again by somebody else between the probe
\* of transcribe_audio and the probe of _split_with_overlap
FileRewritten ==
    /\ pc = "rm_stale"
    /\ file' \in {f \in FilesOf(cfg) : f.exists} \ {file}
    /\ UNCHANGED <<stub, cfg, progress_cb, tmp_dir, pc, duration_sec, starts, chunks,
                   texts, i, raw, full_text, err, log>>
    /\ UNCHANGED besidesTranscribe

ReprobeNext ==
    \/ CheckExists
    \/ ProbeDuration
    \/ ShortTranscribe
    \/ RemoveStaleDir
    \/ SplitPlan
    \/ ExtractChunk
    \/ ProgressStep
    \/ TranscribeChunk
    \/ Stitch
    \/ Cleanup
    \/ FileRewritten

SpecReprobe == ReprobeInit /\ [][ReprobeNext]_vars

\* the duration test of transcribe_audio chose the chunked branch
ChunkedSelected ==
    /\ pc \notin {"idle", "check_exists", "probe", "short"}
    /\ ~TakesShortPath(duration_sec, cfg.chunk_sec)

\* C28: the plan is computed from the duration that selected the chunked path,
\* so a call on that path plans at least two chunks, makes at least two ASR
\* calls before it returns, and never returns with no chunk planned.
C28_PlanFromSelectingDuration ==
    /\ (ChunkedSelected /\ pc \in {"extract", "progress", "asr", "stitch", "cleanup", "returned"}) =>
          /\ starts = ChunkStarts(duration_sec, cfg.chunk_sec, cfg.overlap_sec)
          /\ Len(starts) >= 2
    /\ (ChunkedSelected /\ pc = "returned") => AsrCalls >= 2


-----------------------------------------------------------------------------
(* C21, C22: groups, and grouping *)

\* a chunk text that is used, after one that is skipped, after one that is used
HasSkippedBetween ==
    \E a, b, c \in 1..Len(st_in) :
        /\ a < b /\ b < c
        /\ ~SkipsChunk(st_in[a]) /\ SkipsChunk(st_in[b]) /\ ~SkipsChunk(st_in[c])

\* C21: the fragments of non-adjacent groups (chunks with a skipped chunk
\* between them) are separated by a newline, not merged into one accumulator
\* string; the text of a single chunk is inserted as it is.  No chunk text of
\* StitchTexts holds a newline, so a newline in the output is a separator.
C21_GroupsSeparatedByNewline ==
    (st_pc = "done" /\ ~st_out.raised) =>
        /\ HasSkippedBetween => "\n" \in Range(st_out.text)
        /\ Len(st_in) = 1 => st_out.text = Strip(st_in[1])

\* stitch([x, y])
StitchTwo(x, y) == StitchWithOverlapText(<<x, y>>, st_k[1], st_k[2])

\* three texts, each consecutive pair with an exact overlap of min_k..max_k characters
ThreeOverlapping ==
    /\ st_pc = "done"
    /\ Len(st_in) = 3
    /\ Overlaps(Strip(st_in[1]), Strip(st_in[2]), st_k[1], st_k[2]) # {}
    /\ Overlaps(Strip(st_in[2]), Strip(st_in[3]), st_k[1], st_k[2]) # {}

LeftGrouped == StitchTwo(StitchTwo(st_in[1], st_in[2]).text, st_in[3])
RightGrouped == StitchTwo(st_in[1], StitchTwo(st_in[2], st_in[3]).text)

\* C22 as stated: for a, b, c with exact overlaps between neighbours,
\* stitch([a, b, c]) = stitch([stitch([a, b]), c]) = stitch([a, stitch([b, c])]).
C22_Associative ==
    ThreeOverlapping => (st_out = LeftGrouped /\ st_out = RightGrouped)

\* C22 amended: stitch([a, b, c]) = stitch([stitch([a, b]), c]), and it is a,
\* then b without its longest overlap with a, then c without its longest
\* overlap with what precedes: each overlap once.
C22_LeftGrouping ==
    ThreeOverlapping =>
        LET ab == Strip(st_in[1]) \o
                  Drop(Strip(st_in[2]),
                       MaxOf(Overlaps(Strip(st_in[1]), Strip(st_in[2]), st_k[1], st_k[2])))
        IN  /\ ~st_out.raised
            /\ st_out = LeftGrouped
            /\ Overlaps(ab, Strip(st_in[3]), st_k[1], st_k[2]) # {}
            /\ st_out.text =
                  ab \o Drop(Strip(st_in[3]),
                             MaxOf(Overlaps(ab, Strip(st_in[3]), st_k[1], st_k[2])))

C22_Witness ==
    /\ ThreeOverlapping
    /\ st_in = <<<<"a", "b">>, <<"b", "a">>, <<"a", "b", "a">>>>
    /\ st_out.text = <<"a", "b", "a">>
    /\ st_out = LeftGrouped
    /\ RightGrouped.text = <<"a", "b", "a", "b", "a">>


-----------------------------------------------------------------------------
(* process_file and its heartbeat task *)

\* typing actions one run of the heartbeat may start
MaxBeats == 2

\* the coroutines run on one event loop: each action is the stretch of one
\* coroutine from one await to the next. transcribe_audio runs in a worker
\* thread beside them.
HeartbeatInit ==
    /\ hb_chat \in BOOLEAN
    /\ hb_pf = "start"
    /\ hb_task = "none"
    /\ hb_thread = "none"
    /\ hb_stop = FALSE
    /\ hb_exc = FALSE
    /\ hb_beats = 0
    /\ hb_log = <<>>
    /\ TranscribeIdle
    /\ StitchIdle
    /\ NormalizeIdle
    /\ SummarizeIdle
    /\ ConcurrentIdle
    /\ SessionIdle

\* what process_file sends or logs about the outcome of the transcription
ResultEvents == {"log_exception", "reply_failed", "log_failure", "save", "reply_ok"}

\* the finally clause up to its await: stop_event.set(), then await hb_task
FinallyClause(history) ==
    /\ hb_stop' = TRUE
    /\ hb_log' = Append(history, "stop_set")
    /\ hb_pf' = "await_hb"

\* except Exception as e: logging.exception(...), then await reply_text(...)
ExceptBody ==
    /\ hb_log' = Append(hb_log, "log_exception")
    /\ hb_pf' = "reply_failed"
    /\ UNCHANGED <<hb_stop, hb_exc>>

\* reply "Starting transcription", create the event and the heartbeat task,
\* hand transcribe_audio to a worker thread and await it
PfStart ==
    /\ hb_pf = "start"
    /\ hb_pf' = "await_thread"
    /\ hb_task' = "ready"
    /\ hb_thread' = "running"
    /\ hb_log' = Append(hb_log, "reply_starting")
    /\ UNCHANGED <<hb_chat, hb_stop, hb_exc, hb_beats>>
    /\ UNCHANGED besidesHeartbeat

\* transcribe_audio ends in the worker thread: a text, an empty text or an
\* exception
ThreadFinish ==
    /\ hb_thread = "running"
    /\ hb_thread' \in {"returned", "returned_empty", "raised"}
    /\ UNCHANGED <<hb_chat, hb_pf, hb_task, hb_stop, hb_exc, hb_beats, hb_log>>
    /\ UNCHANGED besidesHeartbeat

\* the await of to_thread completes: the except clause on an exception, the
\* finally clause otherwise
PfResume ==
    /\ hb_pf = "await_thread"
    /\ hb_thread \in {"returned", "returned_empty", "raised"}
    /\ IF hb_thread = "raised"
       THEN ExceptBody
       ELSE FinallyClause(hb_log) /\ UNCHANGED hb_exc
    /\ UNCHANGED <<hb_chat, hb_task, hb_thread, hb_beats>>
    /\ UNCHANGED besidesHeartbeat

\* the reply of the except clause is sent, or raises; the finally clause
\* follows either way
PfReplyFailed ==
    /\ hb_pf = "reply_failed"
    /\ \E sent \in BOOLEAN :
          /\ hb_exc' = ~sent
          /\ FinallyClause(IF sent THEN Append(hb_log, "reply_failed") ELSE hb_log)
    /\ UNCHANGED <<hb_chat, hb_task, hb_thread, hb_beats>>
    /\ UNCHANGED besidesHeartbeat

\* await hb_task completes; a pending exception leaves process_file, an empty
\* transcript is logged as a failure, a transcript is saved and announced
PfAfterHeartbeat ==
    /\ hb_pf = "await_hb"
    /\ hb_task = "done"
    /\ IF hb_exc
       THEN hb_pf' = "raised" /\ UNCHANGED hb_log
       ELSE IF hb_thread # "returned"
       THEN hb_pf' = "returned" /\ hb_log' = Append(hb_log, "log_failure")
       ELSE hb_pf' = "results" /\ hb_log' = Append(Append(hb_log, "save"), "reply_ok")
    /\ UNCHANGED <<hb_chat, hb_task, hb_thread, hb_stop, hb_exc, hb_beats>>
    /\ UNCHANGED besidesHeartbeat

\* while not stop.is_set(): await chat.send_action(TYPING)
LoopTest ==
    IF hb_stop
    THEN /\ hb_task' = "done"
         /\ hb_log' = Append(hb_log, "hb_exit")
         /\ UNCHANGED hb_beats
    ELSE /\ hb_beats < MaxBeats
         /\ hb_task' = "sending"
         /\ hb_beats' = hb_beats + 1
         /\ hb_log' = Append(hb_log, "typing")

\* the task starts: return when there is no chat, else enter the loop
HbBegin ==
    /\ hb_task = "ready"
    /\ IF ~hb_chat
       THEN /\ hb_task' = "done"
            /\ hb_log' = Append(hb_log, "hb_exit")
            /\ UNCHANGED hb_beats
       ELSE LoopTest
    /\ UNCHANGED <<hb_chat, hb_pf, hb_thread, hb_stop, hb_exc>>
    /\ UNCHANGED besidesHeartbeat

\* send_action completes and the task sleeps, or it raises: the exception is
\* caught and logged inside _heartbeat, which returns
HbSent ==
    /\ hb_task = "sending"
    /\ \E ok \in BOOLEAN :
          IF ok
          THEN hb_task' = "sleeping" /\ UNCHANGED hb_log
          ELSE /\ hb_task' = "done"
               /\ hb_log' = Append(Append(hb_log, "hb_failed"), "hb_exit")
    /\ UNCHANGED <<hb_chat, hb_pf, hb_thread, hb_stop, hb_exc, hb_beats>>
    /\ UNCHANGED besidesHeartbeat

\* asyncio.sleep(4) is over: test the event again
HbWake ==
    /\ hb_task = "sleeping"
    /\ LoopTest
    /\ UNCHANGED <<hb_chat, hb_pf, hb_thread, hb_stop, hb_exc>>
    /\ UNCHANGED besidesHeartbeat

HeartbeatNext ==
    \/ PfStart
    \/ ThreadFinish
    \/ PfResume
    \/ PfReplyFailed
    \/ PfAfterHeartbeat
    \/ HbBegin
    \/ HbSent
    \/ HbWake

SpecHeartbeat == HeartbeatInit /\ [][HeartbeatNext]_vars

HbEvents(ev) == {p \in 1..Len(hb_log) : hb_log[p] = ev}

\* C25: every result process_file sends or logs comes after the stop event
\* was set and the heartbeat task ended; no typing action starts after a
\* result, and the transcription's outcome is acted on whether or not the
\* heartbeat failed.
C25_ResultsAfterHeartbeat ==
    /\ \A p \in 1..Len(hb_log) : hb_log[p] \in ResultEvents =>
          /\ \E q \in HbEvents("stop_set") : q < p
          /\ \E q \in HbEvents("hb_exit") : q < p
    /\ \A p \in HbEvents("typing") :
          \A q \in 1..Len(hb_log) : hb_log[q] \in ResultEvents => p < q

-----------------------------------------------------------------------------
(* The bot's handlers and the user's session *)

\* audio files one user uploads in the session
MaxParts == 3

MODE_TRANSCRIBE == "transcribe"
MODE_SUMMARIZE == "summarize"
MODE_BOTH == "both"
Modes == {MODE_TRANSCRIBE, MODE_SUMMARIZE, MODE_BOTH}

\* a key user_data does not hold
Missing == "missing"

\* ud.get(key, default) and the value ud.setdefault(key, default) leaves
Get(value, default) == IF value = Missing THEN default ELSE value

\* the default start_command reads the mode with
StartDefault == MODE_TRANSCRIBE

\* the default handle_audio stores when no mode is set
UploadDefault == MODE_BOTH

\* a fresh session: user_data is empty
SessionInit ==
    /\ ud_mode = Missing
    /\ ud_parts = <<>>
    /\ ud_collecting = Missing
    /\ ss_uploads = 0
    /\ ss_shown = Missing
    /\ ss_last = [handler |-> "none", had_parts |-> FALSE, raised |-> FALSE]
    /\ ss_runs = <<>>
    /\ TranscribeIdle
    /\ StitchIdle
    /\ NormalizeIdle
    /\ SummarizeIdle
    /\ ConcurrentIdle
    /\ HeartbeatIdle

Ended_(handler, had_parts, raised) ==
    [handler |-> handler, had_parts |-> had_parts, raised |-> raised]

\* /start: the reply names the mode read with the default
start_command ==
    /\ ss_shown' = Get(ud_mode, StartDefault)
    /\ ss_last' = Ended_("start", ud_parts # <<>>, FALSE)
    /\ UNCHANGED <<ud_mode, ud_parts, ud_collecting, ss_uploads, ss_runs>>
    /\ UNCHANGED besidesSession

\* a voice or audio message: the download is appended to the buffer
handle_audio ==
    /\ ss_uploads < MaxParts
    /\ ss_uploads' = ss_uploads + 1
    /\ ud_parts' = Append(ud_parts, ss_uploads + 1)
    /\ ud_mode' = Get(ud_mode, UploadDefault)
    /\ ud_collecting' = "True"
    /\ ss_last' = Ended_("audio", TRUE, FALSE)
    /\ UNCHANGED <<ss_shown, ss_runs>>
    /\ UNCHANGED besidesSession

\* one of the three mode buttons
SetMode ==
    /\ \E mode \in Modes : ud_mode' = mode
    /\ ud_collecting' = "False"
    /\ ud_parts' = <<>>
    /\ ss_last' = Ended_("set_mode", ud_parts # <<>>, FALSE)
    /\ UNCHANGED <<ss_uploads, ss_shown, ss_runs>>
    /\ UNCHANGED besidesSession

\* "Yes, add another"
MoreYes ==
    /\ ud_mode' = Get(ud_mode, MODE_BOTH)
    /\ ud_collecting' = "True"
    /\ ss_last' = Ended_("more_yes", ud_parts # <<>>, FALSE)
    /\ UNCHANGED <<ud_parts, ss_uploads, ss_shown, ss_runs>>
    /\ UNCHANGED besidesSession

\* the buffer after the CB_MORE_NO branch, given whether merger.merge raised
PartsAfterMoreNo(parts, merge_raised) == IF merge_raised THEN parts ELSE <<>>

\* "No, process": with an empty buffer a note; else one part is taken as it
\* is, several are merged (which may raise); then the buffer is reset and
\* the file processed in the current mode (which may raise)
MoreNo ==
    /\ ud_mode' = Get(ud_mode, MODE_BOTH)
    /\ ud_collecting' = "False"
    /\ IF ud_parts = <<>>
       THEN /\ ss_last' = Ended_("more_no", FALSE, FALSE)
            /\ UNCHANGED <<ud_parts, ss_runs>>
       ELSE \E merge_raised, later_raised \in BOOLEAN :
               /\ merge_raised => Len(ud_parts) > 1
               /\ ud_parts' = PartsAfterMoreNo(ud_parts, merge_raised)
               /\ ss_runs' = IF merge_raised THEN ss_runs
                             ELSE Append(ss_runs, [parts |-> ud_parts, mode |-> ud_mode'])
               /\ ss_last' = Ended_("more_no", TRUE, merge_raised \/ later_raised)
    /\ UNCHANGED <<ss_uploads, ss_shown>>
    /\ UNCHANGED besidesSession

\* any other callback data
Unsupported ==
    /\ ud_mode' = Get(ud_mode, MODE_BOTH)
    /\ ss_last' = Ended_("unsupported", ud_parts # <<>>, FALSE)
    /\ UNCHANGED <<ud_parts, ud_collecting, ss_uploads, ss_shown, ss_runs>>
    /\ UNCHANGED besidesSession

SessionNext ==
    \/ start_command
    \/ handle_audio
    \/ SetMode
    \/ MoreYes
    \/ MoreNo
    \/ Unsupported

SpecSession == SessionInit /\ [][SessionNext]_vars

\* C29: when "No, process" ends after it found parts in the buffer, the buffer
\* is empty, whether the handler returned or raised, and no part is in two
\* processing runs.
C29_BufferEmptied ==
    /\ (ss_last.handler = "more_no" /\ ss_last.had_parts) => ud_parts = <<>>
    /\ \A p, q \in 1..Len(ss_runs) :
          p # q => Range(ss_runs[p].parts) \cap Range(ss_runs[q].parts) = {}

\* the mode an upload followed by "No, process" is processed in
ModeOfNextUpload == Get(Get(ud_mode, UploadDefault), MODE_BOTH)

\* C30: the mode /start has just shown is the mode the next upload followed
\* by "No, process" is processed in.
C30_ShownModeIsUsed ==
    ss_last.handler = "start" => ss_shown = ModeOfNextUpload

-----------------------------------------------------------------------------
(* C23: the order of the chunks in the transcript *)

RECURSIVE KeepsOrder(_, _, _)
\* `rest` is what the chunk texts of `list` contribute, in their order, after
\* `done`: the first used text whole, each later one either whole after one
\* space or without a prefix that repeats the end of the text before it
KeepsOrder(done, rest, list) ==
    IF list = <<>> THEN rest = <<>>
    ELSE LET cur == Strip(Head(list)) IN
         IF cur = <<>> THEN KeepsOrder(done, rest, Tail(list))
         ELSE IF done = <<>>
         THEN /\ Len(cur) <= Len(rest)
              /\ Prefix(rest, Len(cur)) = cur
              /\ KeepsOrder(cur, Drop(rest, Len(cur)), Tail(list))
         ELSE \E k \in 0..Len(cur) :
                 LET piece == (IF k = 0 THEN <<" ">> ELSE <<>>) \o Drop(cur, k)
                 IN  /\ k > 0 => (k <= Len(done) /\ Suffix(done, k) = Prefix(cur, k))
                     /\ Len(piece) <= Len(rest)
                     /\ Prefix(rest, Len(piece)) = piece
                     /\ KeepsOrder(done \o piece, Drop(rest, Len(piece)), Tail(list))

\* C23: ASR is called on the chunks in strictly increasing index, texts[n] is
\* the answer for chunk n, and the stitched transcript holds what is retained
\* of each non-empty chunk text in that order, nothing dropped but a matched
\* overlap prefix.
C23_OrderPreserved ==
    /\ \A p, q \in EventsOf("asr") : p < q => log[p].arg < log[q].arg
    /\ \A n \in 1..Len(texts) :
          \E p \in EventsOf("asr") : log[p].arg = n /\ log[p].ok
    /\ (OnChunkedPath /\ pc \in {"cleanup", "returned"}) =>
          KeepsOrder(<<>>, full_text, texts)

C23_Witness ==
    /\ pc = "returned"
    /\ texts = <<TextHello, TextWorld, TextHello>>
    /\ full_text = SubSeq(TextHello, 1, 6) \o TextWorld \o <<" ">> \o TextHello
    /\ AsrCalls = 3


=============================================================================
